---- MODULE Spec2Model ----
(***************************************************************************)
(* A model of src/src/dateUtils.ts: date arithmetic (add), range           *)
(* membership (isWithinRange), comparisons (isDateBefore, isSameDay) and   *)
(* the asynchronous mock holiday source (getHolidays, isHoliday).          *)
(*                                                                         *)
(* Date objects live in a heap (a sequence; a reference is an index), so   *)
(* that mutation of an argument is observable.  A Date's time value is an  *)
(* integer number of ticks since the epoch, TicksPerDay ticks to the day,  *)
(* or it is invalid (NaN).  Local time is taken at UTC offset 0 with no    *)
(* daylight-saving transitions.  Amounts are JavaScript values: a finite   *)
(* integer, NaN, +Infinity, -Infinity, or a non-number.                    *)
(***************************************************************************)
EXTENDS Integers, Sequences, FiniteSets

VARIABLES heap, log, amount, type, now, calls

vars == <<heap, log, amount, type, now, calls>>

(***************************************************************************)
(* Bounds of the model.                                                    *)
(***************************************************************************)
TicksPerDay == 2
MaxAmount == 2
MaxCalls == 3
MaxPending == 2
TickMs == 50
MaxNow == 200

(***************************************************************************)
(* Program and platform constants.                                         *)
(***************************************************************************)
\* ECMAScript: a time value lies within 100,000,000 days of the epoch.
MaxDay == 100000000
\* the delay of getHolidays' timer, in milliseconds
HolidayDelay == 100

\* DATE_UNIT_TYPES of ./constants
DATE_UNIT_TYPES ==
  [DAYS |-> "days", WEEKS |-> "weeks", MONTHS |-> "months", YEARS |-> "years"]

\* an argument left out of a call
Undefined == "undefined"

(***************************************************************************)
(* JavaScript numbers, as far as the module meets them.                    *)
(***************************************************************************)
Num(v) == [k |-> "int", v |-> v]
NaN == [k |-> "nan", v |-> 0]
PosInf == [k |-> "inf", v |-> 1]
NegInf == [k |-> "inf", v |-> -1]
\* a value that is not a number at all, such as the string "1"
NotANumber == [k |-> "str", v |-> 1]

TypeofIsNumber(x) == x.k \in {"int", "nan", "inf"}
isNaN(x) == x.k = "nan"
IsFinite(x) == x.k = "int"

\* x * c for a positive integer constant c
NumTimes(x, c) ==
  IF x.k = "int" THEN Num(x.v * c) ELSE x

\* i + x for an integer i
NumPlus(i, x) ==
  IF x.k = "int" THEN Num(i + x.v) ELSE x

\* unary minus, as a caller writes -n
Negate(x) ==
  IF x.k \in {"int", "inf"} THEN [k |-> x.k, v |-> 0 - x.v]
  ELSE IF x.k = "str" THEN Num(0 - x.v)
  ELSE x

(***************************************************************************)
(* The proleptic Gregorian calendar of ECMAScript's Date.                  *)
(***************************************************************************)
\* the day number of year y, month m (1..12), day d
DaysFromCivil(y, m, d) ==
  LET yy == IF m <= 2 THEN y - 1 ELSE y
      era == yy \div 400
      yoe == yy - era * 400
      mp == (m + 9) % 12
      doy == (153 * mp + 2) \div 5 + d - 1
      doe == yoe * 365 + yoe \div 4 - yoe \div 100 + doy
  IN  era * 146097 + doe - 719468

\* year, month (0..11) and day of the month of day number z
CivilFromDays(z) ==
  LET zz == z + 719468
      era == zz \div 146097
      doe == zz - era * 146097
      yoe == (doe - doe \div 1460 + doe \div 36524 - doe \div 146096) \div 365
      doy == doe - (365 * yoe + yoe \div 4 - yoe \div 100)
      mp == (5 * doy + 2) \div 153
      d == doy - (153 * mp + 2) \div 5 + 1
      m == IF mp < 10 THEN mp + 3 ELSE mp - 9
  IN  [year |-> yoe + era * 400 + (IF m <= 2 THEN 1 ELSE 0),
       month |-> m - 1,
       date |-> d]

Day(t) == t \div TicksPerDay
TimeWithinDay(t) == t % TicksPerDay

\* MakeDay: month and date may lie outside their usual ranges
MakeDay(year, month, date) ==
  DaysFromCivil(year + month \div 12, (month % 12) + 1, 1) + date - 1

(***************************************************************************)
(* Date values.                                                            *)
(***************************************************************************)
InvalidDate == [tag |-> "Date", valid |-> FALSE, t |-> 0]
\* a value that is no Date object, such as the string "2026-01-01"
NotADate == [tag |-> "string", valid |-> FALSE, t |-> 0]

\* TimeClip(MakeDate(day, time))
MakeDate(day, time) ==
  LET t == day * TicksPerDay + time
  IN  IF t > MaxDay * TicksPerDay \/ t < 0 - MaxDay * TicksPerDay
      THEN InvalidDate
      ELSE [tag |-> "Date", valid |-> TRUE, t |-> t]

\* new Date(year, monthIndex, day) for integers: years 0..99 mean 1900..1999
NewDate(year, monthIndex, day) ==
  LET yr == IF 0 <= year /\ year <= 99 THEN 1900 + year ELSE year
  IN  MakeDate(MakeDay(yr, monthIndex, day), 0)

\* new Date(year, monthIndex, day) where year is any number
NewDateOfNumber(year, monthIndex, day) ==
  IF IsFinite(year) THEN NewDate(year.v, monthIndex, day) ELSE InvalidDate

\* a valid date given by its calendar fields, whatever the year
DateAt(year, monthIndex, day, time) ==
  MakeDate(MakeDay(year, monthIndex, day), time)

instanceofDate(x) == x.tag = "Date"
\* isNaN(date.getTime())
TimeIsNaN(x) == ~x.valid

getFullYear(x) == CivilFromDays(Day(x.t)).year
getMonth(x) == CivilFromDays(Day(x.t)).month
getDate(x) == CivilFromDays(Day(x.t)).date

\* date.getFullYear() as a number: NaN for an invalid date
FullYearOf(x) == IF x.valid THEN Num(getFullYear(x)) ELSE NaN

\* the value of a date after setDate(dt)
SetDateValue(x, dt) ==
  IF ~x.valid \/ ~IsFinite(dt)
  THEN InvalidDate
  ELSE MakeDate(MakeDay(getFullYear(x), getMonth(x), dt.v), TimeWithinDay(x.t))

\* the value of a date after setMonth(month, dt)
SetMonthValue(x, month, dt) ==
  IF ~x.valid \/ ~IsFinite(month)
  THEN InvalidDate
  ELSE MakeDate(MakeDay(getFullYear(x), month.v, dt), TimeWithinDay(x.t))

\* the value of a date after setFullYear(y, m, dt), y and m read from date e
SetFullYearValue(x, e, dt) ==
  IF ~x.valid \/ ~e.valid
  THEN InvalidDate
  ELSE MakeDate(MakeDay(getFullYear(e), getMonth(e), dt), TimeWithinDay(x.t))

(***************************************************************************)
(* The date library's functions, on the heap h.  Each returns the heap     *)
(* after the call and the reference it returns.                            *)
(***************************************************************************)
\* toDate without the copy: the argument itself is handed back
toDateNoCopy(h, r) == [heap |-> h, ref |-> r]

\* toDate(date): a new Date object with the argument's time value
toDate(h, r) == [heap |-> Append(h, h[r]), ref |-> Len(h) + 1]

\* constructFrom(date, value): a new Date object with the given time value
constructFrom(h, value) == [heap |-> Append(h, value), ref |-> Len(h) + 1]

\* !amount: true of 0 and of NaN
IsFalsy(x) == x.k = "nan" \/ (x.k = "int" /\ x.v = 0)

addDays(h, r, amt) ==
  LET c == toDate(h, r)
  IN  IF isNaN(amt) THEN constructFrom(c.heap, InvalidDate)
      ELSE IF IsFalsy(amt) THEN c
      ELSE [heap |-> [c.heap EXCEPT
                        ![c.ref] = SetDateValue(@, NumPlus(getDate(@), amt))],
            ref |-> c.ref]

addWeeks(h, r, amt) == addDays(h, r, NumTimes(amt, 7))

addMonths(h, r, amt) ==
  LET c == toDate(h, r)
      d == c.heap[c.ref]
      dayOfMonth == getDate(d)
      e == constructFrom(c.heap, d)
      endOfDesiredMonth ==
        SetMonthValue(d, NumPlus(getMonth(d) + 1, amt), 0)
      h2 == [e.heap EXCEPT ![e.ref] = endOfDesiredMonth]
      daysInMonth == getDate(endOfDesiredMonth)
  IN  IF isNaN(amt) THEN constructFrom(c.heap, InvalidDate)
      ELSE IF IsFalsy(amt) THEN c
      ELSE IF endOfDesiredMonth.valid /\ dayOfMonth >= daysInMonth
      THEN [heap |-> h2, ref |-> e.ref]
      ELSE [heap |-> [h2 EXCEPT
                        ![c.ref] =
                          SetFullYearValue(@, endOfDesiredMonth, dayOfMonth)],
            ref |-> c.ref]

addYears(h, r, amt) == addMonths(h, r, NumTimes(amt, 12))

\* +date > +dateToCompare: false when either is NaN
isAfter(a, b) == a.valid /\ b.valid /\ a.t > b.t

isBefore(a, b) == a.valid /\ b.valid /\ a.t < b.t

\* startOfDay of both, then equal time values: false when either is NaN
isSameDayFn(a, b) == a.valid /\ b.valid /\ Day(a.t) = Day(b.t)

(***************************************************************************)
(* dateUtils.ts                                                            *)
(***************************************************************************)
InvalidDateMessage == "Invalid date provided"
InvalidAmountMessage == "Invalid amount provided"
InvalidRangeMessage == "Invalid range: from date must be before to date"
NoError == "none"

Thrown(h, message) == [heap |-> h, threw |-> message, ret |-> 0]
Returned(r) == [heap |-> r.heap, threw |-> NoError, ret |-> r.ref]

\* the default value of add's third parameter
DefaultType(t) == IF t = Undefined THEN DATE_UNIT_TYPES.DAYS ELSE t

\* the date check of add
DateIsInvalid(x) == ~instanceofDate(x) \/ TimeIsNaN(x)

\* the amount check of add
AmountIsInvalid(a) == ~TypeofIsNumber(a) \/ isNaN(a)

\* the switch with its default case adding weeks
AddSwitchDefaultWeeks(h, date, amt, t) ==
  CASE t = DATE_UNIT_TYPES.DAYS -> addDays(h, date, amt)
    [] t = DATE_UNIT_TYPES.WEEKS -> addWeeks(h, date, amt)
    [] t = DATE_UNIT_TYPES.MONTHS -> addMonths(h, date, amt)
    [] t = DATE_UNIT_TYPES.YEARS -> addYears(h, date, amt)
    [] OTHER -> addWeeks(h, date, amt)

\* the switch with the WEEKS case adding months
AddSwitchWeeksAsMonths(h, date, amt, t) ==
  CASE t = DATE_UNIT_TYPES.DAYS -> addDays(h, date, amt)
    [] t = DATE_UNIT_TYPES.WEEKS -> addMonths(h, date, amt)
    [] t = DATE_UNIT_TYPES.MONTHS -> addMonths(h, date, amt)
    [] t = DATE_UNIT_TYPES.YEARS -> addYears(h, date, amt)
    [] OTHER -> addDays(h, date, amt)

\* the switch of add
AddSwitch(h, date, amt, t) ==
  CASE t = DATE_UNIT_TYPES.DAYS -> addDays(h, date, amt)
    [] t = DATE_UNIT_TYPES.WEEKS -> addWeeks(h, date, amt)
    [] t = DATE_UNIT_TYPES.MONTHS -> addMonths(h, date, amt)
    [] t = DATE_UNIT_TYPES.YEARS -> addYears(h, date, amt)
    [] OTHER -> addDays(h, date, amt)

\* add with the amount checked before the date
addAmountFirst(h, date, amt, t) ==
  IF AmountIsInvalid(amt) THEN Thrown(h, InvalidAmountMessage)
  ELSE IF DateIsInvalid(h[date]) THEN Thrown(h, InvalidDateMessage)
  ELSE Returned(AddSwitch(h, date, amt, DefaultType(t)))

add(h, date, amt, t) ==
  IF DateIsInvalid(h[date]) THEN Thrown(h, InvalidDateMessage)
  ELSE IF AmountIsInvalid(amt) THEN Thrown(h, InvalidAmountMessage)
  ELSE Returned(AddSwitch(h, date, amt, DefaultType(t)))

\* the outcome of a call that returns a boolean
Answered(val) == [threw |-> NoError, val |-> val]
Failed(message) == [threw |-> message, val |-> FALSE]

\* isWithinRange with the range check's arguments swapped
isWithinRangeSwappedCheck(date, from, to) ==
  IF isAfter(to, from) THEN Failed(InvalidRangeMessage)
  ELSE Answered(isAfter(date, from) /\ isBefore(date, to))

\* isWithinRange with the boundaries included
isWithinRangeInclusive(date, from, to) ==
  IF isAfter(from, to) THEN Failed(InvalidRangeMessage)
  ELSE Answered(~isBefore(date, from) /\ ~isAfter(date, to))

\* isWithinRange on the values of its three dates, which it leaves alone
isWithinRange(date, from, to) ==
  IF isAfter(from, to) THEN Failed(InvalidRangeMessage)
  ELSE Answered(isAfter(date, from) /\ isBefore(date, to))

isDateBefore(date, compareDate) == isBefore(date, compareDate)

isSameDay(date, compareDate) == isSameDayFn(date, compareDate)

(***************************************************************************)
(* getHolidays and isHoliday.  A call in flight is a record: its           *)
(* arguments, when it started, where it stands (pc), and what it has       *)
(* produced.  pc is "timer" while the timeout is pending; "await" once     *)
(* isHoliday's promise of holidays is resolved and its continuation is     *)
(* queued; "done" when the call's own promise is resolved.                 *)
(***************************************************************************)
\* the array the timer's callback builds
HolidaysOf(year) ==
  << NewDateOfNumber(year, 0, 1),
     NewDateOfNumber(year, 11, 25),
     NewDateOfNumber(year, 11, 31) >>

\* getHolidays(year) up to setTimeout: the call as it stands at time t
StartGetHolidays(year, t) ==
  [fn |-> "getHolidays", year |-> year, date |-> InvalidDate,
   startedAt |-> t, due |-> t + HolidayDelay, pc |-> "timer",
   holidays |-> <<>>, val |-> FALSE, settledAt |-> 0]

\* isHoliday(date) up to its await: it has called getHolidays
StartIsHoliday(date, t) ==
  [fn |-> "isHoliday", year |-> FullYearOf(date), date |-> date,
   startedAt |-> t, due |-> t + HolidayDelay, pc |-> "timer",
   holidays |-> <<>>, val |-> FALSE, settledAt |-> 0]

\* the year read from a variable that all calls share: the latest call's
YearOfLatestCall(cs, i) == cs[Len(cs)].year

\* the year the callback of call i reads: the parameter its closure holds
CapturedYear(cs, i) == cs[i].year

\* the timer's callback of call i, run at time t
TimerCallback(cs, i, t) ==
  [cs EXCEPT ![i] =
     [cs[i] EXCEPT
        !.holidays = HolidaysOf(CapturedYear(cs, i)),
        !.pc = IF cs[i].fn = "getHolidays" THEN "done" ELSE "await",
        !.settledAt = IF cs[i].fn = "getHolidays" THEN t ELSE 0]]

\* holidays.some((holiday) => isSameDay(date, holiday))
SomeSameDay(date, holidays) ==
  \E k \in 1..Len(holidays) : isSameDay(date, holidays[k])

\* isHoliday after its await, run at time t
IsHolidayContinuation(cs, i, t) ==
  [cs EXCEPT ![i] =
     [cs[i] EXCEPT
        !.val = SomeSameDay(cs[i].date, cs[i].holidays),
        !.pc = "done",
        !.settledAt = t]]

(***************************************************************************)
(* The callers' inputs.                                                    *)
(***************************************************************************)
InputDates ==
  { DateAt(2026, 0, 1, 0),
    DateAt(2026, 0, 10, 1),
    DateAt(2026, 0, 31, 0),
    DateAt(2024, 1, 29, 1),
    DateAt(50, 11, 25, 0),
    MakeDate(MaxDay, 0),
    MakeDate(0 - MaxDay, 0),
    InvalidDate,
    NotADate }

Amounts ==
  { Num(i) : i \in 0..MaxAmount } \cup {NaN, PosInf, NotANumber}

Types ==
  { DATE_UNIT_TYPES.DAYS, DATE_UNIT_TYPES.WEEKS, DATE_UNIT_TYPES.MONTHS,
    DATE_UNIT_TYPES.YEARS, "hours", Undefined }

\* a record of one call: its arguments and how it ended
Call(fn, args, amt, t, threw, ret, val) ==
  [fn |-> fn, args |-> args, amount |-> amt, type |-> t,
   threw |-> threw, ret |-> ret, val |-> val]

\* the references a caller holds: its own date and the dates returned to it
ClientRefs == ({1} \cup { log[i].ret : i \in 1..Len(log) }) \ {0}

(***************************************************************************)
(* Calls of add.  A caller holds one date, an amount n and a unit, and     *)
(* calls add with n or -n on any date it holds.                            *)
(***************************************************************************)
Init ==
  /\ heap \in { <<d>> : d \in InputDates }
  /\ amount \in Amounts
  /\ type \in Types
  /\ log = <<>>
  /\ now = 0
  /\ calls = <<>>

Add(date, amt) ==
  /\ Len(log) < MaxCalls
  /\ LET r == add(heap, date, amt, type)
     IN  /\ heap' = r.heap
         /\ log' = Append(log, Call("add", <<date>>, amt, type,
                                    r.threw, r.ret, FALSE))
  /\ UNCHANGED <<amount, type, now, calls>>

AddForward == \E date \in ClientRefs : Add(date, amount)

AddBackward == \E date \in ClientRefs : Add(date, Negate(amount))

Next == AddForward \/ AddBackward

Spec == Init /\ [][Next]_vars

(***************************************************************************)
(* Properties of add.                                                      *)
(***************************************************************************)
AddCalls == { i \in 1..Len(log) : log[i].fn = "add" }

\* the date argument of call i, as a value
DateArg(i) == heap[log[i].args[1]]

KnownTypes ==
  { DATE_UNIT_TYPES.DAYS, DATE_UNIT_TYPES.WEEKS, DATE_UNIT_TYPES.MONTHS,
    DATE_UNIT_TYPES.YEARS }

\* C1: add fails with InvalidInput, and returns no date, for every amount
\* that is not a finite number, whatever the valid date and the unit.
C1_NonFiniteAmountFails ==
  \A i \in AddCalls :
    (~DateIsInvalid(DateArg(i)) /\ ~IsFinite(log[i].amount))
      => (log[i].threw = InvalidAmountMessage /\ log[i].ret = 0)

\* add does fail for the amounts that are NaN or no number at all.
AddFailsForNaNAndNonNumbers ==
  \A i \in AddCalls :
    (~DateIsInvalid(DateArg(i)) /\ log[i].amount.k \in {"nan", "str"})
      => (log[i].threw = InvalidAmountMessage /\ log[i].ret = 0)

\* C2: add fails with "Invalid date provided", and returns no date, whenever
\* its date is no Date object or an invalid Date, whatever the amount (an
\* invalid one included) and the unit.
C2_InvalidDateFails ==
  \A i \in AddCalls :
    DateIsInvalid(DateArg(i))
      => (log[i].threw = InvalidDateMessage /\ log[i].ret = 0)

C2_Witness ==
  \E i \in AddCalls :
    /\ DateArg(i) = InvalidDate
    /\ AmountIsInvalid(log[i].amount)
    /\ log[i].threw = InvalidDateMessage

\* call j undoes call i: it takes i's result, the negated amount, the same unit
Undoes(j, i) ==
  /\ i < j
  /\ log[i].threw = NoError
  /\ log[j].args[1] = log[i].ret
  /\ log[j].amount = Negate(log[i].amount)
  /\ log[j].type = log[i].type

RoundTrips ==
  { p \in AddCalls \X AddCalls :
      /\ Undoes(p[2], p[1])
      /\ ~DateIsInvalid(DateArg(p[1]))
      /\ IsFinite(log[p[1]].amount)
      /\ log[p[1]].type \in {DATE_UNIT_TYPES.DAYS, DATE_UNIT_TYPES.WEEKS} }

\* call j returned a date on the same calendar day as the date given to call i
BackOnSameDay(i, j) ==
  /\ log[j].threw = NoError
  /\ isSameDayFn(heap[log[j].ret], DateArg(i))

C9_UnknownTypeAddsDays ==
  \A i \in AddCalls :
    (/\ log[i].type \notin KnownTypes
     /\ ~DateIsInvalid(DateArg(i))
     /\ IsFinite(log[i].amount))
      => LET r == add(<<DateArg(i)>>, 1, log[i].amount, DATE_UNIT_TYPES.DAYS)
         IN  /\ log[i].threw = NoError
             /\ r.threw = NoError
             /\ heap[log[i].ret] = r.heap[r.ret]

C9_Witness ==
  \E i, j \in AddCalls :
    /\ log[i].type = "hours"
    /\ log[j].args = log[i].args
    /\ IsFinite(log[i].amount) /\ log[i].amount.v # 0
    /\ log[j].amount = Negate(log[i].amount)
    /\ log[i].threw = NoError /\ log[j].threw = NoError
    /\ heap[log[i].ret].valid /\ heap[log[j].ret].valid
    /\ Day(heap[log[i].ret].t) = Day(DateArg(i).t) + log[i].amount.v
    /\ Day(heap[log[j].ret].t) = Day(DateArg(i).t) - log[i].amount.v

\* C10: add never changes its input date, whether it returns or fails, and a
\* returned date is a new object, for every amount (0 included) and unit.
C10_AddLeavesItsInput ==
  [][(Len(log') = Len(log) + 1 /\ log'[Len(log')].fn = "add")
       => LET c == log'[Len(log')]
          IN  /\ \A r \in 1..Len(heap) : heap'[r] = heap[r]
              /\ c.threw = NoError
                   => (c.ret \notin 1..Len(heap) /\ c.ret \in 1..Len(heap'))
              /\ c.threw # NoError => (c.ret = 0 /\ heap' = heap)]_vars

C10_Witness ==
  \E i, j \in AddCalls :
    /\ log[i].amount = Num(0)
    /\ log[i].type = DATE_UNIT_TYPES.MONTHS
    /\ log[i].threw = NoError
    /\ log[i].ret # log[i].args[1]
    /\ heap[log[i].ret] = DateArg(i)
    /\ log[j].args = <<log[i].ret>>
    /\ log[j].threw = NoError

(***************************************************************************)
(* Calls of isWithinRange, isDateBefore and isSameDay.  A caller holds     *)
(* three dates and makes one call on any of them.                          *)
(***************************************************************************)
RangeDates ==
  { DateAt(2026, 0, 1, 0),
    DateAt(2026, 0, 1, 1),
    DateAt(2026, 0, 5, 0),
    DateAt(2026, 0, 10, 0),
    InvalidDate }

RangeInit ==
  /\ heap \in { <<a, b, c>> : a, b, c \in RangeDates }
  /\ amount = Num(0)
  /\ type = Undefined
  /\ log = <<>>
  /\ now = 0
  /\ calls = <<>>

IsWithinRange ==
  /\ log = <<>>
  /\ \E date, from, to \in 1..Len(heap) :
       LET r == isWithinRange(heap[date], heap[from], heap[to])
       IN  log' = <<Call("isWithinRange", <<date, from, to>>, amount, type,
                         r.threw, 0, r.val)>>
  /\ UNCHANGED <<heap, amount, type, now, calls>>

IsDateBefore ==
  /\ log = <<>>
  /\ \E date, compareDate \in 1..Len(heap) :
       log' = <<Call("isDateBefore", <<date, compareDate>>, amount, type,
                     NoError, 0, isDateBefore(heap[date], heap[compareDate]))>>
  /\ UNCHANGED <<heap, amount, type, now, calls>>

IsSameDay ==
  /\ log = <<>>
  /\ \E date, compareDate \in 1..Len(heap) :
       log' = <<Call("isSameDay", <<date, compareDate>>, amount, type,
                     NoError, 0, isSameDay(heap[date], heap[compareDate]))>>
  /\ UNCHANGED <<heap, amount, type, now, calls>>

RangeNext == IsWithinRange \/ IsDateBefore \/ IsSameDay

RangeSpec == RangeInit /\ [][RangeNext]_vars

RangeCalls == { i \in 1..Len(log) : log[i].fn = "isWithinRange" }

\* the three dates of call i of isWithinRange, as values
DateOf(i) == heap[log[i].args[1]]
FromOf(i) == heap[log[i].args[2]]
ToOf(i) == heap[log[i].args[3]]

\* C3: when from is not after to, isWithinRange(date, from, to) is true if
\* and only if date is strictly after from and strictly before to; so it is
\* false when date is from or is to, and false for every date when from
\* equals to.
C3_StrictlyBetween ==
  \A i \in RangeCalls :
    /\ ~(FromOf(i).valid /\ ToOf(i).valid /\ FromOf(i).t > ToOf(i).t)
         => /\ log[i].threw = NoError
            /\ log[i].val = (/\ DateOf(i).valid
                             /\ FromOf(i).valid
                             /\ ToOf(i).valid
                             /\ FromOf(i).t < DateOf(i).t
                             /\ DateOf(i).t < ToOf(i).t)
    /\ (log[i].threw = NoError
        /\ (log[i].args[1] \in {log[i].args[2], log[i].args[3]}
            \/ FromOf(i) = ToOf(i)))
         => log[i].val = FALSE

C3_Witness ==
  \E i \in RangeCalls :
    /\ log[i].threw = NoError
    /\ FromOf(i).valid /\ ToOf(i).valid
    /\ FromOf(i).t < ToOf(i).t
    /\ log[i].args[1] = log[i].args[3]
    /\ log[i].val = FALSE

C3_WitnessInside ==
  \E i \in RangeCalls :
    /\ log[i].threw = NoError
    /\ FromOf(i).t < DateOf(i).t /\ DateOf(i).t < ToOf(i).t
    /\ Day(FromOf(i).t) = Day(DateOf(i).t)
    /\ log[i].val = TRUE

\* C4: isWithinRange throws InvalidRange, and returns no boolean, whenever
\* from is chronologically after to, for every date, between the two or not.
C4_FromAfterToThrows ==
  \A i \in RangeCalls :
    (FromOf(i).valid /\ ToOf(i).valid /\ FromOf(i).t > ToOf(i).t)
      => (log[i].threw = InvalidRangeMessage /\ log[i].val = FALSE)

C4_Witness ==
  \E i \in RangeCalls :
    /\ DateOf(i).valid /\ FromOf(i).valid /\ ToOf(i).valid
    /\ ToOf(i).t < DateOf(i).t /\ DateOf(i).t < FromOf(i).t
    /\ log[i].threw = InvalidRangeMessage

(***************************************************************************)
(* Calls of getHolidays and isHoliday, several in flight at once.  Timers  *)
(* that are due fire in any order; a queued continuation runs at any later *)
(* step.                                                                   *)
(***************************************************************************)
Years == { Num(50), Num(2026) }

HolidayDates ==
  { DateAt(2026, 11, 25, 1),
    DateAt(2026, 5, 15, 0),
    DateAt(2027, 0, 1, 0),
    DateAt(50, 11, 25, 0),
    InvalidDate }

HolidayInit ==
  /\ heap = <<>>
  /\ amount = Num(0)
  /\ type = Undefined
  /\ log = <<>>
  /\ now = 0
  /\ calls = <<>>

CallGetHolidays ==
  /\ Len(calls) < MaxPending
  /\ now + HolidayDelay <= MaxNow
  /\ \E year \in Years : calls' = Append(calls, StartGetHolidays(year, now))
  /\ UNCHANGED <<heap, log, amount, type, now>>

CallIsHoliday ==
  /\ Len(calls) < MaxPending
  /\ now + HolidayDelay <= MaxNow
  /\ \E date \in HolidayDates :
       calls' = Append(calls, StartIsHoliday(date, now))
  /\ UNCHANGED <<heap, log, amount, type, now>>

TimerFires(i) ==
  /\ calls[i].pc = "timer"
  /\ now >= calls[i].due
  /\ calls' = TimerCallback(calls, i, now)
  /\ UNCHANGED <<heap, log, amount, type, now>>

Resume(i) ==
  /\ calls[i].pc = "await"
  /\ calls' = IsHolidayContinuation(calls, i, now)
  /\ UNCHANGED <<heap, log, amount, type, now>>

Tick ==
  /\ now < MaxNow
  /\ now' = now + TickMs
  /\ UNCHANGED <<heap, log, amount, type, calls>>

SomeTimerFires == \E i \in 1..Len(calls) : TimerFires(i)

SomeCallResumes == \E i \in 1..Len(calls) : Resume(i)

HolidayNext ==
  CallGetHolidays \/ CallIsHoliday \/ SomeTimerFires \/ SomeCallResumes \/ Tick

HolidaySpec == HolidayInit /\ [][HolidayNext]_vars

\* the event loop runs every due timer and every queued continuation, and
\* time passes
FairHolidaySpec ==
  /\ HolidaySpec
  /\ WF_vars(Tick)
  /\ WF_vars(SomeTimerFires)
  /\ WF_vars(SomeCallResumes)

Done(fn) == { i \in 1..Len(calls) : calls[i].fn = fn /\ calls[i].pc = "done" }

\* the three holidays of a year, by the calendar
HolidaysByCalendar(y) ==
  << DateAt(y, 0, 1, 0), DateAt(y, 11, 25, 0), DateAt(y, 11, 31, 0) >>

\* a date's calendar day is January 1, December 25 or December 31
OnHoliday(date) ==
  /\ date.valid
  /\ \/ (getMonth(date) = 0 /\ getDate(date) = 1)
     \/ (getMonth(date) = 11 /\ getDate(date) \in {25, 31})

\* C5: isHoliday(date) resolves to true if and only if date's calendar day is
\* January 1, December 25 or December 31 of its own year, whatever its time
\* of day, and to false for every other date.
C5_TrueExactlyOnHolidays ==
  \A i \in Done("isHoliday") : calls[i].val = OnHoliday(calls[i].date)

\* isHoliday is right for the dates whose year is not one of 0..99.
IsHolidayRightOutsideTwoDigitYears ==
  \A i \in Done("isHoliday") :
    (calls[i].date.valid => getFullYear(calls[i].date) \notin 0..99)
      => calls[i].val = OnHoliday(calls[i].date)

\* C6: every call getHolidays(year) completes, without a failure and not
\* before its delay has elapsed, with exactly the three dates January 1,
\* December 25, December 31 of the given year, in that order.
C6_ThreeHolidaysOfTheYear ==
  \A i \in Done("getHolidays") :
    /\ calls[i].settledAt >= calls[i].startedAt + HolidayDelay
    /\ calls[i].holidays = HolidaysByCalendar(calls[i].year.v)

\* getHolidays is right for the years that are not one of 0..99, and is
\* never early.
GetHolidaysRightOutsideTwoDigitYears ==
  \A i \in Done("getHolidays") :
    /\ calls[i].settledAt >= calls[i].startedAt + HolidayDelay
    /\ calls[i].year.v \notin 0..99
         => calls[i].holidays = HolidaysByCalendar(calls[i].year.v)

\* every call that was started completes
EveryCallCompletes ==
  \A i \in 1..(MaxPending + 1) :
    [](Len(calls) >= i => <>(Len(calls) >= i /\ calls[i].pc = "done"))

\* the call as it ends when it is the only call: its timer fires at its due
\* time and its continuation, if it has one, runs at once
RunAlone(c) ==
  LET started == IF c.fn = "getHolidays"
                 THEN StartGetHolidays(c.year, c.startedAt)
                 ELSE StartIsHoliday(c.date, c.startedAt)
      fired == TimerCallback(<<started>>, 1, started.due)
  IN  IF c.fn = "getHolidays"
      THEN fired[1]
      ELSE IsHolidayContinuation(fired, 1, started.due)[1]

\* C7: with several getHolidays and isHoliday calls pending at once, under
\* every interleaving of their timers each call completes with the result it
\* produces when it runs alone, whatever the other calls' arguments, start
\* order and completion order.
C7_ResultAsIfAlone ==
  \A i \in 1..Len(calls) :
    /\ calls[i].pc \in {"await", "done"}
         => calls[i].holidays = RunAlone(calls[i]).holidays
    /\ calls[i].pc = "done" => calls[i].val = RunAlone(calls[i]).val

C7_Witness ==
  \E i, j \in 1..Len(calls) :
    /\ i < j
    /\ calls[i].fn = "isHoliday" /\ calls[j].fn = "getHolidays"
    /\ calls[i].year # calls[j].year
    /\ calls[i].startedAt < calls[j].startedAt
    /\ calls[j].startedAt < calls[i].settledAt
    /\ calls[i].pc = "done" /\ calls[j].pc = "done"
    /\ calls[i].val = TRUE
    /\ calls[j].settledAt < calls[i].settledAt

====
